---- MODULE Spec2Model ----
(***************************************************************************)
(* hootrhino/microkvstore: a key-value store with Redis-style semantics    *)
(* (string values, TTL expiration, glob key listing) on one SQLite table.  *)
(*                                                                         *)
(* The relation is the function rows: key -> row or NoRow (the PRIMARY KEY *)
(* of the table makes it a function).  The clock `now` counts ticks, a     *)
(* sub-second unit: TicksPerSec ticks make one second, so that             *)
(* time.Time.Unix() (whole seconds, truncating) is not the identity.       *)
(* Durations (ttl, the result of TTL) are counted in ticks; expires_at is  *)
(* stored in whole seconds, as in the table.                               *)
(*                                                                         *)
(* Every public method issues one SQL statement and reads the clock right  *)
(* after it: it is one atomic action.  `go s.Del(key)` is a detached       *)
(* deletion: the spawning action adds the key to `pending`, and            *)
(* DetachedDel runs the statement at any later time.  A statement may fail  *)
(* (the fault input of an action); the caller's call then returns the      *)
(* wrapped error.                                                          *)
(*                                                                         *)
(* Spec is the open store in use by one caller, with no sweeper;           *)
(* SpecReuse is the scenario of TestSetGetWithTTL; SpecSweep is the store  *)
(* with the goroutines of RunCleanup and with Close (SpecSweepFair adds    *)
(* the scheduling); SpecClose is the store that is closed while in use;    *)
(* SpecPattern is the translation of Keys patterns on its own; SpecLazy    *)
(* is the lazy deletion on its own (SpecLazyFair adds the scheduling of    *)
(* the detached deletions); SpecSweepKinds is SpecSweep with rows of       *)
(* other kinds and rows without expiry; SpecScan is a call of Keys row by  *)
(* row, next to the other goroutines; SpecTables is two stores opened on   *)
(* one database file; SpecLife is the store with the caller's Sets         *)
(* recorded, for the lifetime of a key.                                    *)
(***************************************************************************)
EXTENDS Integers, Sequences, FiniteSets

\* ---------------------------------------------------------------- bounds
\* Ticks per second: the sub-second resolution of the modelled clock.
TicksPerSec == 3
\* The clock stops advancing at MaxTime ticks.
MaxTime == 4
\* At most MaxPending detached deletions of one key are in flight at once.
MaxPending == 1
\* Patterns and keys of the pattern translation have at most MaxLen characters.
MaxLen == 2
\* At most MaxSweepers goroutines of RunCleanup are started.
MaxSweepers == 2

\* ------------------------------------------------------------- universes
\* keys and patterns are sequences of characters; one key differs from a
\* pattern only in the case of its letter
KeySpace == {<<"a">>, <<"B">>}
PatternSpace == {<<"*">>, <<"a">>, <<"b">>}
Values == {"v1", "v2"}
\* the ttl values callers pass, in ticks: negative, zero, less than a second,
\* one second, more than a second
TTLs == {0 - 1, 0, 1, TicksPerSec, TicksPerSec + 1}
MaxTTL == TicksPerSec + 1
Kinds == {"string", "list"}

\* expires_at INTEGER NULL: sql.NullInt64 with Valid = false
NULL == -1
\* sql.ErrNoRows: the point lookup found no row
NoRow == [value |-> "", kind |-> "none", expiresAt |-> NULL]

ErrNil == "nil"
ErrKeyNotFound == "ErrKeyNotFound"
ErrWrongType == "ErrWrongType"
\* any other error of database/sql, wrapped by fmt.Errorf
StorageFault == "StorageFault"

\* TTL's "no expiration" result, time.Duration(-1)
NoExpiration == -1

\* the characters of patterns and keys: the two glob wildcards, the two LIKE
\* wildcards, the LIKE escape character, and a letter in both cases
Alphabet == {"*", "?", "%", "_", "\\", "a", "A"}
Texts == UNION {[1..n -> Alphabet] : n \in 0..MaxLen}

\* no pattern is being evaluated
NoScan == [glob |-> <<>>, key |-> <<>>, like |-> <<>>, hit |-> FALSE, pc |-> "none"]

\* the caller has no Set with a ttl standing for the key
NoWrite == [at |-> 0 - 1, ttl |-> 0]

\* no store is opened on a second table
NoTables == [name |-> <<>>, rel |-> <<>>, pending |-> <<>>]

\* no call of Keys is in progress.  pc: "none", "loop" inside for rows.Next(),
\* "spawn" in the loop over keysToDelete, "done" after return; snap: the rows
\* the SELECT reads (the state of the table when the query ran); todo: the
\* keys of the result set not yet delivered by rows.Next(); found: the keys
\* the loop has read; keys, del: the slices keys and keysToDelete;
\* spawned: the keys for which go s.Del(key) was started
NoIter == [pc |-> "none", pattern |-> <<>>, snap |-> <<>>, todo |-> {}, found |-> {},
           keys |-> {}, del |-> {}, spawned |-> {}]

\* the goroutines RunCleanup can start, and the state of one: pc is "none"
\* before it is started, "select" at the select statement, "tick" after the
\* select took ticker.C, "exec" after the clock was read (tnow, in seconds),
\* "done" after return; nextAt: the time at which the ticker delivers, or has
\* delivered, the next tick into ticker.C; failed: the goroutine is back at its select
\* after a bulk delete that returned an error (it wrote the error message to
\* os.Stderr and continued)
SweeperIds == 1..MaxSweepers
NoSweeper == [pc |-> "none", nextAt |-> 0, tnow |-> 0, failed |-> FALSE]

\* rows: the table; now: the clock; pending: the detached deletions in flight,
\* per key; last: the caller's most recent call; step: the caller's position
\* in the re-use scenario of TestSetGetWithTTL ("free" outside it);
\* scan: one evaluation of a Keys pattern against one key (NoScan outside the
\* specification of the pattern translation);
\* wrote: per key, the instant and the ttl of the caller's latest successful
\* Set with a ttl > 0, when no Set or Del of the caller came after it (NoWrite
\* otherwise, and outside the specification of the lifetime);
\* tables: two stores opened on one database file (NoTables outside the
\* specification of the tables); iter: the call of Keys in progress, row by
\* row (NoIter outside the specification of the scan);
\* ctxDone: s.cancel() has been called, s.ctx.Done() is closed;
\* dbClosed: s.db.Close() has been called; sweepers: the goroutines of
\* RunCleanup
VARIABLES rows, now, pending, last, step, wrote, scan, tables, iter, ctxDone,
          dbClosed, sweepers

vars == <<rows, now, pending, last, step, wrote, scan, tables, iter, ctxDone,
          dbClosed, sweepers>>

\* the handle and its background goroutines
lifecycle == <<ctxDone, dbClosed, sweepers>>

\* ----------------------------------------------------------- pure parts
\* time.Time.Unix(): whole seconds, the sub-second part dropped
Unix(t) == t \div TicksPerSec

\* time.Unix(sec, 0): the instant, in ticks, of a whole second
UnixTime(sec) == sec * TicksPerSec

\* a variant of SetExpiresAt that gives a ttl of zero an expiry
SetExpiresAtZero(t, ttl) == IF ttl >= 0 THEN Unix(t + ttl) ELSE NULL

\* Set's computation of expires_at
SetExpiresAt(t, ttl) == IF ttl > 0 THEN Unix(t + ttl) ELSE NULL

\* a variant of isExpired that lets a row live one second too long
isExpiredLate(expiresAt, t) == expiresAt # NULL /\ Unix(t) > expiresAt + 1

\* the expiry test of Get, Exists and Keys: time.Now().Unix() > expiresAt.Int64
isExpired(expiresAt, t) == expiresAt # NULL /\ Unix(t) > expiresAt

\* the expiry test of TTL: time.Unix(expiresAt, 0).Before(time.Now())
ttlExpired(expiresAt, t) == UnixTime(expiresAt) < t

\* a variant of replaceChar that hands % and _ to LIKE as they are
replaceCharKeepsLike(c) ==
    IF c = "*" THEN <<"%">>
    ELSE IF c = "?" THEN <<"_">>
    ELSE <<c>>

\* strings.NewReplacer over single characters: one pass, each character of
\* the glob replaced on its own, so an inserted backslash or % is not
\* replaced again
replaceChar(c) ==
    IF c = "%" THEN <<"\\", "%">>
    ELSE IF c = "_" THEN <<"\\", "_">>
    ELSE IF c = "*" THEN <<"%">>
    ELSE IF c = "?" THEN <<"_">>
    ELSE <<c>>

RECURSIVE globToSQLLike(_)
globToSQLLike(glob) ==
    IF glob = <<>> THEN <<>>
    ELSE replaceChar(Head(glob)) \o globToSQLLike(Tail(glob))

\* SQLite's LIKE compares ASCII letters without regard to case
Fold(c) == IF c = "A" THEN "a" ELSE IF c = "B" THEN "b" ELSE c

\* key LIKE p ESCAPE '\' as SQLite evaluates it: % any sequence, _ any one
\* character, backslash makes the next character literal (and a pattern
\* ending in a lone backslash matches nothing)
RECURSIVE Like(_, _)
Like(p, s) ==
    IF p = <<>> THEN s = <<>>
    ELSE IF Head(p) = "%" THEN
        Like(Tail(p), s) \/ (s # <<>> /\ Like(p, Tail(s)))
    ELSE IF Head(p) = "\\" THEN
        /\ Len(p) >= 2
        /\ s # <<>>
        /\ Fold(Head(s)) = Fold(p[2])
        /\ Like(SubSeq(p, 3, Len(p)), Tail(s))
    ELSE IF Head(p) = "_" THEN
        s # <<>> /\ Like(Tail(p), Tail(s))
    ELSE
        s # <<>> /\ Fold(Head(s)) = Fold(Head(p)) /\ Like(Tail(p), Tail(s))

\* ---------------------------------------------- results of the operations
\* Each is what the method returns for the row its statement read, the clock
\* value t it then read, and whether the statement failed (fault).  del says
\* whether the method runs `go s.Del(key)`.

\* a variant of GetOutcome that takes every error of the query for
\* sql.ErrNoRows
GetOutcomeFaultAsNotFound(row, t, fault) ==
    IF fault THEN [val |-> "", err |-> ErrKeyNotFound, del |-> FALSE]
    ELSE IF row = NoRow THEN [val |-> "", err |-> ErrKeyNotFound, del |-> FALSE]
    ELSE IF row.kind # "string" THEN [val |-> "", err |-> ErrWrongType, del |-> FALSE]
    ELSE IF isExpired(row.expiresAt, t) THEN [val |-> "", err |-> ErrKeyNotFound, del |-> TRUE]
    ELSE [val |-> row.value, err |-> ErrNil, del |-> FALSE]

\* a variant of GetOutcome that leaves the expired row to the sweeper
GetOutcomeNoSpawn(row, t, fault) ==
    IF fault THEN [val |-> "", err |-> StorageFault, del |-> FALSE]
    ELSE IF row = NoRow THEN [val |-> "", err |-> ErrKeyNotFound, del |-> FALSE]
    ELSE IF row.kind # "string" THEN [val |-> "", err |-> ErrWrongType, del |-> FALSE]
    ELSE IF isExpired(row.expiresAt, t) THEN [val |-> "", err |-> ErrKeyNotFound, del |-> FALSE]
    ELSE [val |-> row.value, err |-> ErrNil, del |-> FALSE]

\* a variant of GetOutcome that tests the expiry before the type
GetOutcomeExpiryFirst(row, t, fault) ==
    IF fault THEN [val |-> "", err |-> StorageFault, del |-> FALSE]
    ELSE IF row = NoRow THEN [val |-> "", err |-> ErrKeyNotFound, del |-> FALSE]
    ELSE IF isExpired(row.expiresAt, t) THEN [val |-> "", err |-> ErrKeyNotFound, del |-> TRUE]
    ELSE IF row.kind # "string" THEN [val |-> "", err |-> ErrWrongType, del |-> FALSE]
    ELSE [val |-> row.value, err |-> ErrNil, del |-> FALSE]

\* a variant of GetOutcome without the check of the type column
GetOutcomeAnyType(row, t, fault) ==
    IF fault THEN [val |-> "", err |-> StorageFault, del |-> FALSE]
    ELSE IF row = NoRow THEN [val |-> "", err |-> ErrKeyNotFound, del |-> FALSE]
    ELSE IF isExpired(row.expiresAt, t) THEN [val |-> "", err |-> ErrKeyNotFound, del |-> TRUE]
    ELSE [val |-> row.value, err |-> ErrNil, del |-> FALSE]

GetOutcome(row, t, fault) ==
    IF fault THEN [val |-> "", err |-> StorageFault, del |-> FALSE]
    ELSE IF row = NoRow THEN [val |-> "", err |-> ErrKeyNotFound, del |-> FALSE]
    ELSE IF row.kind # "string" THEN [val |-> "", err |-> ErrWrongType, del |-> FALSE]
    ELSE IF isExpired(row.expiresAt, t) THEN [val |-> "", err |-> ErrKeyNotFound, del |-> TRUE]
    ELSE [val |-> row.value, err |-> ErrNil, del |-> FALSE]

ExistsOutcome(row, t, fault) ==
    IF fault THEN [found |-> FALSE, err |-> StorageFault, del |-> FALSE]
    ELSE IF row = NoRow THEN [found |-> FALSE, err |-> ErrNil, del |-> FALSE]
    ELSE IF isExpired(row.expiresAt, t) THEN [found |-> FALSE, err |-> ErrNil, del |-> TRUE]
    ELSE [found |-> TRUE, err |-> ErrNil, del |-> FALSE]

\* a variant of TTLOutcome that reports a missing key as Redis does, with -2
TTLOutcomeRedis(row, t, fault) ==
    IF fault THEN [dur |-> 0, err |-> StorageFault, del |-> FALSE]
    ELSE IF row = NoRow THEN [dur |-> 0 - 2, err |-> ErrKeyNotFound, del |-> FALSE]
    ELSE IF row.kind # "string" THEN [dur |-> 0, err |-> ErrWrongType, del |-> FALSE]
    ELSE IF row.expiresAt = NULL THEN [dur |-> NoExpiration, err |-> ErrNil, del |-> FALSE]
    ELSE IF ttlExpired(row.expiresAt, t) THEN [dur |-> 0 - 2, err |-> ErrKeyNotFound, del |-> TRUE]
    ELSE [dur |-> UnixTime(row.expiresAt) - t, err |-> ErrNil, del |-> FALSE]

TTLOutcome(row, t, fault) ==
    IF fault THEN [dur |-> 0, err |-> StorageFault, del |-> FALSE]
    ELSE IF row = NoRow THEN [dur |-> 0, err |-> ErrKeyNotFound, del |-> FALSE]
    ELSE IF row.kind # "string" THEN [dur |-> 0, err |-> ErrWrongType, del |-> FALSE]
    ELSE IF row.expiresAt = NULL THEN [dur |-> NoExpiration, err |-> ErrNil, del |-> FALSE]
    ELSE IF ttlExpired(row.expiresAt, t) THEN [dur |-> 0, err |-> ErrKeyNotFound, del |-> TRUE]
    ELSE [dur |-> UnixTime(row.expiresAt) - t, err |-> ErrNil, del |-> FALSE]

\* for each pattern, the keys that satisfy key LIKE globToSQLLike(pattern)
LikeKeys == [p \in PatternSpace |-> {k \in KeySpace : Like(globToSQLLike(p), k)}]

\* the rows the SELECT of Keys returns
Matched(rws, pattern) == {k \in LikeKeys[pattern] : rws[k] # NoRow}

\* Keys: fault is "query" when db.Query fails, "iter" when rows.Err() reports
\* an error after the loop, else "none"; bad are the rows whose rows.Scan
\* fails (the loop logs the error and continues with the next row)
KeysOutcome(rws, t, pattern, fault, bad) ==
    IF fault # "none" THEN [keys |-> {}, err |-> StorageFault, del |-> {}]
    ELSE LET strs == {k \in Matched(rws, pattern) \ bad : rws[k].kind = "string"}
             dead == {k \in strs : isExpired(rws[k].expiresAt, t)}
         IN [keys |-> strs \ dead, err |-> ErrNil, del |-> dead]

\* ------------------------------------------------------------- the store
\* the caller's most recent call and what it returned: op and key (or
\* pattern) name the call, val is the value Get returned (for Set: the value
\* and ttl passed), dur, found and keys the results of TTL, Exists and Keys
Call(op, key, val, ttl) ==
    [op |-> op, key |-> key, val |-> val, ttl |-> ttl, dur |-> 0,
     found |-> FALSE, keys |-> {}, err |-> ErrNil]

\* a statement may fail (I/O error, locked or closed database).  A failed
\* call returns the same error whatever its key, so the failures of the
\* caller's calls are enumerated for one key
Faults == BOOLEAN
FaultsOf(k) == IF k = <<"a">> THEN Faults ELSE {FALSE}

\* `go s.Del(key)` for every key of ks
Spawn(ks) == [k \in KeySpace |-> IF k \in ks THEN pending[k] + 1 ELSE pending[k]]

CanSpawn(ks) == \A k \in ks : pending[k] < MaxPending

Init ==
    /\ rows = [k \in KeySpace |-> NoRow]
    /\ now = 0
    /\ pending = [k \in KeySpace |-> 0]
    /\ last = Call("Open", <<>>, "", 0)
    /\ step = "free"
    /\ scan = NoScan
    /\ tables = NoTables
    /\ iter = NoIter
    /\ wrote = [k \in KeySpace |-> NoWrite]
    /\ ctxDone = FALSE
    /\ dbClosed = FALSE
    /\ sweepers = [i \in SweeperIds |-> NoSweeper]

\* a variant of Set that inserts but does not replace (INSERT OR IGNORE)
SetKeepExisting(k, v, ttl, fault) ==
    /\ rows' = IF fault \/ rows[k] # NoRow THEN rows
               ELSE [rows EXCEPT ![k] = [value |-> v, kind |-> "string",
                                         expiresAt |-> SetExpiresAt(now, ttl)]]
    /\ last' = [Call("Set", k, v, ttl) EXCEPT
                   !.err = IF fault THEN StorageFault ELSE ErrNil]
    /\ UNCHANGED <<now, pending>>

Set(k, v, ttl, fault) ==
    /\ rows' = IF fault THEN rows
               ELSE [rows EXCEPT ![k] = [value |-> v, kind |-> "string",
                                         expiresAt |-> SetExpiresAt(now, ttl)]]
    /\ last' = [Call("Set", k, v, ttl) EXCEPT
                   !.err = IF fault THEN StorageFault ELSE ErrNil]
    /\ UNCHANGED <<now, pending>>

Get(k, fault) ==
    LET r == GetOutcome(rows[k], now, fault) IN
    /\ r.del => CanSpawn({k})
    /\ pending' = IF r.del THEN Spawn({k}) ELSE pending
    /\ last' = [Call("Get", k, r.val, 0) EXCEPT !.err = r.err]
    /\ UNCHANGED <<rows, now>>

\* a variant of Del that reports a key that was not there as an error
DelMissingIsError(k, fault) ==
    /\ rows' = IF fault THEN rows ELSE [rows EXCEPT ![k] = NoRow]
    /\ last' = [Call("Del", k, "", 0) EXCEPT
                   !.err = IF fault THEN StorageFault
                           ELSE IF rows[k] = NoRow THEN ErrKeyNotFound
                           ELSE ErrNil]
    /\ UNCHANGED <<now, pending>>

Del(k, fault) ==
    /\ rows' = IF fault THEN rows ELSE [rows EXCEPT ![k] = NoRow]
    /\ last' = [Call("Del", k, "", 0) EXCEPT
                   !.err = IF fault THEN StorageFault ELSE ErrNil]
    /\ UNCHANGED <<now, pending>>

Exists(k, fault) ==
    LET r == ExistsOutcome(rows[k], now, fault) IN
    /\ r.del => CanSpawn({k})
    /\ pending' = IF r.del THEN Spawn({k}) ELSE pending
    /\ last' = [Call("Exists", k, "", 0) EXCEPT !.found = r.found, !.err = r.err]
    /\ UNCHANGED <<rows, now>>

TTL(k, fault) ==
    LET r == TTLOutcome(rows[k], now, fault) IN
    /\ r.del => CanSpawn({k})
    /\ pending' = IF r.del THEN Spawn({k}) ELSE pending
    /\ last' = [Call("TTL", k, "", 0) EXCEPT !.dur = r.dur, !.err = r.err]
    /\ UNCHANGED <<rows, now>>

Keys(pattern, fault, bad) ==
    LET r == KeysOutcome(rows, now, pattern, fault, bad) IN
    /\ CanSpawn(r.del)
    /\ pending' = Spawn(r.del)
    /\ last' = [Call("Keys", pattern, "", 0) EXCEPT !.keys = r.keys, !.err = r.err]
    /\ UNCHANGED <<rows, now>>

\* a variant of DetachedDel whose error reaches the caller
DetachedDelReportsError(k, fault) ==
    /\ pending[k] > 0
    /\ pending' = [pending EXCEPT ![k] = pending[k] - 1]
    /\ rows' = IF fault THEN rows ELSE [rows EXCEPT ![k] = NoRow]
    /\ last' = IF fault THEN [last EXCEPT !.err = StorageFault] ELSE last
    /\ UNCHANGED now

\* the goroutine of `go s.Del(key)`: the DELETE runs, its error is dropped
DetachedDel(k, fault) ==
    /\ pending[k] > 0
    /\ pending' = [pending EXCEPT ![k] = pending[k] - 1]
    /\ rows' = IF fault THEN rows ELSE [rows EXCEPT ![k] = NoRow]
    /\ UNCHANGED <<now, last>>

\* a row of another kind, written to the table directly by the caller (the
\* type column admits 'list', 'hash', ...; the store only writes 'string')
Inject(k, v, ttl) ==
    /\ rows' = [rows EXCEPT ![k] = [value |-> v, kind |-> "list",
                                    expiresAt |-> SetExpiresAt(now, ttl)]]
    /\ last' = Call("Inject", k, v, ttl)
    /\ UNCHANGED <<now, pending>>

\* time passes
Tick ==
    /\ now < MaxTime
    /\ now' = now + 1
    /\ UNCHANGED <<rows, pending, last>>

\* the steps of the store in use: the caller's calls, with their inputs, the
\* detached deletions, and the passing of time
CallSet ==
    /\ \E k \in KeySpace, v \in Values, ttl \in TTLs : Set(k, v, ttl, FALSE)
    /\ UNCHANGED <<step, wrote, scan, tables, iter, lifecycle>>

CallSetFails ==
    /\ Set(<<"a">>, "v1", MaxTTL, TRUE)
    /\ UNCHANGED <<step, wrote, scan, tables, iter, lifecycle>>

CallGet ==
    /\ \E k \in KeySpace : \E f \in FaultsOf(k) : Get(k, f)
    /\ UNCHANGED <<step, wrote, scan, tables, iter, lifecycle>>

CallDel ==
    /\ \E k \in KeySpace : \E f \in FaultsOf(k) : Del(k, f)
    /\ UNCHANGED <<step, wrote, scan, tables, iter, lifecycle>>

CallExists ==
    /\ \E k \in KeySpace : \E f \in FaultsOf(k) : Exists(k, f)
    /\ UNCHANGED <<step, wrote, scan, tables, iter, lifecycle>>

CallTTL ==
    /\ \E k \in KeySpace : \E f \in FaultsOf(k) : TTL(k, f)
    /\ UNCHANGED <<step, wrote, scan, tables, iter, lifecycle>>

CallKeys ==
    /\ \/ \E p \in PatternSpace : Keys(p, "none", {})
       \/ \E f \in {"query", "iter"} : Keys(<<"*">>, f, {})
       \/ \E k \in KeySpace : rows[k] # NoRow /\ Keys(<<"*">>, "none", {k})
    /\ UNCHANGED <<step, wrote, scan, tables, iter, lifecycle>>

RunDetachedDel ==
    /\ \E k \in KeySpace, f \in Faults : DetachedDel(k, f)
    /\ UNCHANGED <<step, wrote, scan, tables, iter, lifecycle>>

WriteOtherKind ==
    /\ \E k \in KeySpace, ttl \in {0, 1} : Inject(k, "v1", ttl)
    /\ UNCHANGED <<step, wrote, scan, tables, iter, lifecycle>>

TimePasses ==
    /\ Tick
    /\ UNCHANGED <<step, wrote, scan, tables, iter, lifecycle>>

Next ==
    \/ CallSet
    \/ CallSetFails
    \/ CallGet
    \/ CallDel
    \/ CallExists
    \/ CallTTL
    \/ CallKeys
    \/ RunDetachedDel
    \/ WriteOtherKind
    \/ TimePasses

Spec == Init /\ [][Next]_vars

\* TestSetGetWithTTL: Set with a ttl, Get at once, sleep past the expiry, Get
\* again (ErrKeyNotFound), Set the key again with no ttl, Get.  The detached
\* deletion of the expired Get runs whenever the scheduler runs it.
InitReuse ==
    /\ rows = [k \in KeySpace |-> NoRow]
    /\ now \in 0..(TicksPerSec - 1)
    /\ pending = [k \in KeySpace |-> 0]
    /\ last = Call("Open", <<>>, "", 0)
    /\ step = "start"
    /\ scan = NoScan
    /\ tables = NoTables
    /\ iter = NoIter
    /\ wrote = [k \in KeySpace |-> NoWrite]
    /\ ctxDone = FALSE
    /\ dbClosed = FALSE
    /\ sweepers = [i \in SweeperIds |-> NoSweeper]

ReuseSet ==
    /\ step = "start"
    /\ \E k \in KeySpace, v \in Values, ttl \in TTLs :
          ttl > 0 /\ Set(k, v, ttl, FALSE)
    /\ step' = "set"
    /\ UNCHANGED <<wrote, scan, tables, iter, lifecycle>>

ReuseGetLive ==
    /\ step = "set"
    /\ Get(last.key, FALSE)
    /\ last'.err = ErrNil
    /\ step' = "set"
    /\ UNCHANGED <<wrote, scan, tables, iter, lifecycle>>

ReuseGetExpired ==
    /\ step = "set"
    /\ Get(last.key, FALSE)
    /\ last'.err = ErrKeyNotFound
    /\ step' = "expired"
    /\ UNCHANGED <<wrote, scan, tables, iter, lifecycle>>

ReuseSetAgain ==
    /\ step = "expired"
    /\ \E v \in Values : Set(last.key, v, 0, FALSE)
    /\ step' = "reset"
    /\ UNCHANGED <<wrote, scan, tables, iter, lifecycle>>

ReuseGetAgain ==
    /\ step = "reset"
    /\ Get(last.key, FALSE)
    /\ step' = "done"
    /\ UNCHANGED <<wrote, scan, tables, iter, lifecycle>>

NextReuse ==
    \/ ReuseSet
    \/ ReuseGetLive
    \/ TimePasses
    \/ ReuseGetExpired
    \/ ReuseSetAgain
    \/ ReuseGetAgain
    \/ RunDetachedDel

SpecReuse == InitReuse /\ [][NextReuse]_vars

\* ------------------------------------------- the sweeper and the shutdown
\* the intervals callers pass to RunCleanup, in ticks: negative, zero, and
\* one positive interval
SweepInterval == TicksPerSec
Intervals == {0 - 1, 0, SweepInterval}

Min(a, b) == IF a < b THEN a ELSE b

\* the lowest goroutine not yet started
FreeSweeper == CHOOSE i \in SweeperIds :
                  sweepers[i].pc = "none" /\ \A j \in 1..(i - 1) : sweepers[j].pc # "none"

\* a variant of RunCleanup that rejects only a negative interval
RunCleanupZeroStarts(interval) ==
    /\ last' = Call("RunCleanup", <<>>, "", interval)
    /\ IF interval < 0 THEN UNCHANGED sweepers
       ELSE /\ \E i \in SweeperIds : sweepers[i].pc = "none"
            /\ sweepers' = [sweepers EXCEPT ![FreeSweeper] =
                    [pc |-> "select", nextAt |-> Min(now + interval, MaxTime),
                     tnow |-> 0, failed |-> FALSE]]
    /\ UNCHANGED <<rows, now, pending, ctxDone, dbClosed>>

\* a variant of RunCleanup that starts a goroutine only when none is running
RunCleanupOnce(interval) ==
    /\ last' = Call("RunCleanup", <<>>, "", interval)
    /\ IF interval <= 0 \/ \E j \in SweeperIds : sweepers[j].pc \in {"select", "exec"}
       THEN UNCHANGED sweepers
       ELSE /\ \E i \in SweeperIds : sweepers[i].pc = "none"
            /\ sweepers' = [sweepers EXCEPT ![FreeSweeper] =
                    [pc |-> "select", nextAt |-> Min(now + interval, MaxTime),
                     tnow |-> 0, failed |-> FALSE]]
    /\ UNCHANGED <<rows, now, pending, ctxDone, dbClosed>>

\* RunCleanup(interval).  s.db is set by Open and never reset, so the nil
\* check passes.  A non-positive interval returns after a message.  Else the
\* ticker is created (first tick after one interval) and the goroutine is
\* started, whether or not the store was closed before.
RunCleanup(interval) ==
    /\ last' = Call("RunCleanup", <<>>, "", interval)
    /\ IF interval <= 0 THEN UNCHANGED sweepers
       ELSE /\ \E i \in SweeperIds : sweepers[i].pc = "none"
            /\ sweepers' = [sweepers EXCEPT ![FreeSweeper] =
                    [pc |-> "select", nextAt |-> Min(now + interval, MaxTime),
                     tnow |-> 0, failed |-> FALSE]]
    /\ UNCHANGED <<rows, now, pending, ctxDone, dbClosed>>

\* time.Ticker: ticks are due every interval from the start of the ticker;
\* ticker.C buffers one tick, and the ticks that come due while it is full are
\* dropped.  A tick is ready for the select once the time nextAt has come;
\* after it is taken at time t the next one is due at the first multiple of
\* the interval after t.  The clock stops at MaxTime, which stands for all
\* later times: there a tick is ready again and again.
TickReady(i) == now >= sweepers[i].nextAt

NextTickAfter(nextAt, t) ==
    Min(nextAt + SweepInterval * (((t - nextAt) \div SweepInterval) + 1), MaxTime)

\* a variant of SweeperStops that leaves the select but not the loop (break
\* in place of return)
SweeperStopsBreaks(i) ==
    /\ sweepers[i].pc = "select"
    /\ ctxDone
    /\ sweepers' = [sweepers EXCEPT ![i].failed = FALSE]
    /\ UNCHANGED <<rows, now, pending, last, ctxDone, dbClosed>>

\* select, case <-s.ctx.Done(): the goroutine returns; the deferred
\* ticker.Stop() ends the ticker
SweeperStops(i) ==
    /\ sweepers[i].pc = "select"
    /\ ctxDone
    /\ sweepers' = [sweepers EXCEPT ![i] =
                        [pc |-> "done", nextAt |-> 0, tnow |-> 0,
                         failed |-> FALSE]]
    /\ UNCHANGED <<rows, now, pending, last, ctxDone, dbClosed>>

\* select, case <-ticker.C, and now := time.Now().Unix().  When both cases
\* are ready, select takes either.
SweeperTakesTick(i) ==
    /\ sweepers[i].pc = "select"
    /\ TickReady(i)
    /\ sweepers' = [sweepers EXCEPT ![i].pc = "exec",
                        ![i].nextAt = NextTickAfter(sweepers[i].nextAt, now),
                        ![i].tnow = Unix(now), ![i].failed = FALSE]
    /\ UNCHANGED <<rows, now, pending, last, ctxDone, dbClosed>>

\* the rows DELETE ... WHERE expires_at IS NOT NULL AND expires_at < ? removes
Swept(tnow) == {k \in KeySpace : /\ rows[k] # NoRow
                                 /\ rows[k].expiresAt # NULL
                                 /\ rows[k].expiresAt < tnow}

\* a variant of BulkDelete that also removes the rows expiring in the
\* current second
BulkDeleteInclusive(tnow) ==
    [k \in KeySpace |-> IF /\ rows[k] # NoRow
                           /\ rows[k].expiresAt # NULL
                           /\ rows[k].expiresAt <= tnow
                        THEN NoRow ELSE rows[k]]

\* the table after the sweeper's statement
\* a variant of BulkDelete that sweeps the string rows only
BulkDeleteStringsOnly(tnow) ==
    [k \in KeySpace |-> IF k \in Swept(tnow) /\ rows[k].kind = "string" THEN NoRow ELSE rows[k]]

BulkDelete(tnow) == [k \in KeySpace |-> IF k \in Swept(tnow) THEN NoRow ELSE rows[k]]

\* a variant of SweeperExec that returns from the goroutine on an error
SweeperExecStopsOnError(i, fault) ==
    /\ sweepers[i].pc = "exec"
    /\ rows' = IF fault \/ dbClosed THEN rows ELSE BulkDelete(sweepers[i].tnow)
    /\ sweepers' = [sweepers EXCEPT
                        ![i].pc = IF fault \/ dbClosed THEN "done" ELSE "select",
                        ![i].tnow = 0,
                        ![i].failed = (fault \/ dbClosed)]
    /\ UNCHANGED <<now, pending, last, ctxDone, dbClosed>>

\* s.db.Exec(deleteExpiredSQL, now): on an error (the statement fails, or
\* the database is closed) a message is written and the loop continues
SweeperExec(i, fault) ==
    /\ sweepers[i].pc = "exec"
    /\ rows' = IF fault \/ dbClosed THEN rows ELSE BulkDelete(sweepers[i].tnow)
    /\ sweepers' = [sweepers EXCEPT ![i].pc = "select", ![i].tnow = 0,
                                    ![i].failed = (fault \/ dbClosed)]
    /\ UNCHANGED <<now, pending, last, ctxDone, dbClosed>>

\* Close, first statement: s.cancel()
CloseCancel ==
    /\ ~ctxDone
    /\ ctxDone' = TRUE
    /\ UNCHANGED <<rows, now, pending, last, dbClosed, sweepers>>

\* Close, second statement: return s.db.Close()
CloseDb ==
    /\ ctxDone
    /\ ~dbClosed
    /\ dbClosed' = TRUE
    /\ last' = Call("Close", <<>>, "", 0)
    /\ UNCHANGED <<rows, now, pending, ctxDone, sweepers>>

\* the store with its sweepers, used as TestRunCleanup uses it: the caller
\* writes one key with a short ttl and the other with a long one (at any
\* time, and again), starts sweepers and closes the store; a statement fails
\* once the database is closed
InitSweep == Init

SweepSets == {<<(<<"a">>), 1>>, <<(<<"B">>), MaxTTL>>}

SweepCallSet ==
    /\ \E kt \in SweepSets : Set(kt[1], "v1", kt[2], dbClosed)
    /\ UNCHANGED <<step, wrote, scan, tables, iter, lifecycle>>

SweepRunCleanup ==
    /\ \E d \in Intervals : RunCleanup(d)
    /\ UNCHANGED <<step, wrote, scan, tables, iter>>

SweepStops ==
    /\ \E i \in SweeperIds : SweeperStops(i)
    /\ UNCHANGED <<step, wrote, scan, tables, iter>>

SweepTakesTick ==
    /\ \E i \in SweeperIds : SweeperTakesTick(i)
    /\ UNCHANGED <<step, wrote, scan, tables, iter>>

SweepExec ==
    /\ \E i \in SweeperIds, f \in Faults : SweeperExec(i, f)
    /\ UNCHANGED <<step, wrote, scan, tables, iter>>

CallCloseCancel ==
    /\ CloseCancel
    /\ UNCHANGED <<step, wrote, scan, tables, iter>>

CallCloseDb ==
    /\ CloseDb
    /\ UNCHANGED <<step, wrote, scan, tables, iter>>

NextSweep ==
    \/ SweepCallSet
    \/ SweepRunCleanup
    \/ SweepStops
    \/ SweepTakesTick
    \/ SweepExec
    \/ CallCloseCancel
    \/ CallCloseDb
    \/ TimePasses

SpecSweep == InitSweep /\ [][NextSweep]_vars

\* The same store with rows of every shape under the sweeper: rows of another
\* kind written directly into the table, and rows without expiry.
SweepWriteOtherKind ==
    /\ \E k \in KeySpace, ttl \in {0, 1} : Inject(k, "v1", ttl)
    /\ UNCHANGED <<step, wrote, scan, tables, iter, lifecycle>>

SweepSetPermanent ==
    /\ \E k \in KeySpace : Set(k, "v2", 0, dbClosed)
    /\ UNCHANGED <<step, wrote, scan, tables, iter, lifecycle>>

NextSweepKinds ==
    \/ NextSweep
    \/ SweepWriteOtherKind
    \/ SweepSetPermanent

SpecSweepKinds == InitSweep /\ [][NextSweepKinds]_vars

\* the steps of one goroutine, and of all of them, for the fairness conditions
LoopStepOf(i) ==
    /\ \/ SweeperTakesTick(i)
       \/ SweeperStops(i)
       \/ \E f \in Faults : SweeperExec(i, f)
    /\ UNCHANGED <<step, wrote, scan, tables, iter>>
SomeStops == (\E i \in SweeperIds : SweeperStops(i)) /\ UNCHANGED <<step, wrote, scan, tables, iter>>
SomeExecSucceeds == (\E i \in SweeperIds : SweeperExec(i, FALSE)) /\ UNCHANGED <<step, wrote, scan, tables, iter>>

\* the scheduling: time advances, a goroutine
\* that can take a step of its loop takes one (a statement that is issued
\* returns).  A select chooses among its ready cases uniformly at random:
\* selections made over and over with the cancellation ready do not all take
\* the tick.  And the bulk delete does not fail forever.
SweepFairness ==
    /\ WF_vars(TimePasses)
    /\ \A i \in SweeperIds : WF_vars(LoopStepOf(i))
    /\ SF_vars(SomeStops)
    /\ SF_vars(SomeExecSucceeds)

SpecSweepFair == SpecSweep /\ SweepFairness

\* the store that is closed while in use: the caller's calls, the detached
\* deletions of its reads, and Close.  Once s.db.Close() has run every
\* statement fails ("sql: database is closed"), those of the detached
\* deletions included.
ClosedCallSet ==
    /\ \E k \in KeySpace, ttl \in {0, 1} : Set(k, "v1", ttl, dbClosed)
    /\ UNCHANGED <<step, wrote, scan, tables, iter, lifecycle>>

ClosedCallGet ==
    /\ \E k \in KeySpace : Get(k, dbClosed)
    /\ UNCHANGED <<step, wrote, scan, tables, iter, lifecycle>>

ClosedCallExists ==
    /\ \E k \in KeySpace : Exists(k, dbClosed)
    /\ UNCHANGED <<step, wrote, scan, tables, iter, lifecycle>>

ClosedCallTTL ==
    /\ \E k \in KeySpace : TTL(k, dbClosed)
    /\ UNCHANGED <<step, wrote, scan, tables, iter, lifecycle>>

ClosedCallKeys ==
    /\ \E p \in PatternSpace : Keys(p, IF dbClosed THEN "query" ELSE "none", {})
    /\ UNCHANGED <<step, wrote, scan, tables, iter, lifecycle>>

ClosedDetachedDel ==
    /\ \E k \in KeySpace, f \in Faults : DetachedDel(k, f \/ dbClosed)
    /\ UNCHANGED <<step, wrote, scan, tables, iter, lifecycle>>

NextClose ==
    \/ ClosedCallSet
    \/ ClosedCallGet
    \/ ClosedCallExists
    \/ ClosedCallTTL
    \/ ClosedCallKeys
    \/ ClosedDetachedDel
    \/ CallCloseCancel
    \/ CallCloseDb
    \/ TimePasses

SpecClose == Init /\ [][NextClose]_vars

\* The lazy deletion on its own: the open store, no sweeper, a storage that
\* does not fail.  The goroutine of `go s.Del(key)` is scheduled by the Go
\* runtime like any other: once started it runs its statement (weak
\* fairness of each detached deletion).
LazyTTLs == {0, 1, TicksPerSec}

LazyCallSet ==
    /\ \E k \in KeySpace, v \in Values, ttl \in LazyTTLs : Set(k, v, ttl, FALSE)
    /\ UNCHANGED <<step, wrote, scan, tables, iter, lifecycle>>

LazyCallGet ==
    /\ \E k \in KeySpace : Get(k, FALSE)
    /\ UNCHANGED <<step, wrote, scan, tables, iter, lifecycle>>

LazyCallExists ==
    /\ \E k \in KeySpace : Exists(k, FALSE)
    /\ UNCHANGED <<step, wrote, scan, tables, iter, lifecycle>>

LazyCallTTL ==
    /\ \E k \in KeySpace : TTL(k, FALSE)
    /\ UNCHANGED <<step, wrote, scan, tables, iter, lifecycle>>

LazyCallKeys ==
    /\ \E p \in PatternSpace : Keys(p, "none", {})
    /\ UNCHANGED <<step, wrote, scan, tables, iter, lifecycle>>

LazyDetachedDel(k) ==
    /\ DetachedDel(k, FALSE)
    /\ UNCHANGED <<step, wrote, scan, tables, iter, lifecycle>>

LazyRunDetachedDel == \E k \in KeySpace : LazyDetachedDel(k)

NextLazy ==
    \/ LazyCallSet
    \/ LazyCallGet
    \/ LazyCallExists
    \/ LazyCallTTL
    \/ LazyCallKeys
    \/ LazyRunDetachedDel
    \/ TimePasses

SpecLazy == Init /\ [][NextLazy]_vars

LazyFairness == \A k \in KeySpace : WF_vars(LazyDetachedDel(k))

SpecLazyFair == SpecLazy /\ LazyFairness

\* The pattern translation on its own: Keys(glob) against a table holding one
\* row, of key `key`.  Keys translates the glob (ScanTranslate) and the
\* SELECT evaluates key LIKE ? ESCAPE '\' on the row (ScanMatch).
InitPattern ==
    /\ rows = [k \in KeySpace |-> NoRow]
    /\ now = 0
    /\ pending = [k \in KeySpace |-> 0]
    /\ last = Call("Open", <<>>, "", 0)
    /\ step = "free"
    /\ scan \in {[glob |-> g, key |-> k, like |-> <<>>, hit |-> FALSE, pc |-> "start"] :
                   g \in Texts, k \in Texts}
    /\ tables = NoTables
    /\ iter = NoIter
    /\ wrote = [k \in KeySpace |-> NoWrite]
    /\ ctxDone = FALSE
    /\ dbClosed = FALSE
    /\ sweepers = [i \in SweeperIds |-> NoSweeper]

ScanTranslate ==
    /\ scan.pc = "start"
    /\ scan' = [scan EXCEPT !.like = globToSQLLike(scan.glob), !.pc = "translated"]
    /\ UNCHANGED <<rows, now, pending, last, step, wrote, tables, iter, lifecycle>>

ScanMatch ==
    /\ scan.pc = "translated"
    /\ scan' = [scan EXCEPT !.hit = Like(scan.like, scan.key), !.pc = "matched"]
    /\ UNCHANGED <<rows, now, pending, last, step, wrote, tables, iter, lifecycle>>

NextPattern ==
    \/ ScanTranslate
    \/ ScanMatch

SpecPattern == InitPattern /\ [][NextPattern]_vars

\* Two stores opened on one database file, each with its table name.  Every
\* statement of a store names its table as quoteTable() prints it, and SQLite
\* finds the table of that identifier: it reads the quoted identifier (a
\* doubled quote stands for one quote) and compares table names without
\* regard to the case of ASCII letters.  CREATE TABLE IF NOT EXISTS creates
\* the table only when the file has none of that name.
StoreIds == {1, 2}
TableNames == {<<"a">>, <<"A">>, <<"\"">>, <<"a", "\"">>}
TableKeys == {<<"a">>}

\* strings.ReplaceAll(s.table, `"`, `""`)
RECURSIVE doubleQuotes(_)
doubleQuotes(t) ==
    IF t = <<>> THEN <<>>
    ELSE IF Head(t) = "\"" THEN <<"\"", "\"">> \o doubleQuotes(Tail(t))
    ELSE <<Head(t)>> \o doubleQuotes(Tail(t))

quoteTable(t) == <<"\"">> \o doubleQuotes(t) \o <<"\"">>

\* the text between the quotes of a quoted identifier, up to the closing
\* quote, each doubled quote read as one quote
RECURSIVE readQuoted(_)
readQuoted(q) ==
    IF q = <<>> THEN <<>>
    ELSE IF Head(q) = "\"" THEN
        IF Len(q) >= 2 /\ q[2] = "\"" THEN <<"\"">> \o readQuoted(Tail(Tail(q)))
        ELSE <<>>
    ELSE <<Head(q)>> \o readQuoted(Tail(q))

\* the table SQLite finds for a quoted identifier
SqlTable(q) == LET t == readQuoted(Tail(q)) IN [i \in 1..Len(t) |-> Fold(t[i])]

TableOf(s) == SqlTable(quoteTable(tables.name[s]))
OtherStore(s) == 3 - s

InitTables ==
    /\ rows = [k \in KeySpace |-> NoRow]
    /\ now = 0
    /\ pending = [k \in KeySpace |-> 0]
    /\ last = Call("Open", <<>>, "", 0)
    /\ step = "free"
    /\ scan = NoScan
    /\ iter = NoIter
    /\ wrote = [k \in KeySpace |-> NoWrite]
    /\ ctxDone = FALSE
    /\ dbClosed = FALSE
    /\ sweepers = [i \in SweeperIds |-> NoSweeper]
    /\ \E n1 \in TableNames : \E n2 \in TableNames \ {n1} :
          tables = [name |-> <<n1, n2>>,
                    rel |-> [t \in {SqlTable(quoteTable(n1)), SqlTable(quoteTable(n2))} |->
                                [k \in TableKeys |-> NoRow]],
                    pending |-> [s \in StoreIds |-> [k \in TableKeys |-> 0]]]

\* the value a store writes, to tell the rows of the two stores apart
ValueOf(s) == IF s = 1 THEN "v1" ELSE "v2"

TableWrite(s, k, row) ==
    tables' = [tables EXCEPT !.rel[TableOf(s)][k] = row]

TableSet(s, k, ttl) ==
    /\ TableWrite(s, k, [value |-> ValueOf(s), kind |-> "string",
                         expiresAt |-> SetExpiresAt(now, ttl)])
    /\ UNCHANGED <<rows, now, pending, last, step, wrote, scan, iter, lifecycle>>

TableDel(s, k) ==
    /\ tables.rel[TableOf(s)][k] # NoRow
    /\ TableWrite(s, k, NoRow)
    /\ UNCHANGED <<rows, now, pending, last, step, wrote, scan, iter, lifecycle>>

\* Get of an expired row: the call changes no row and starts go s.Del(key)
TableGet(s, k) ==
    /\ GetOutcome(tables.rel[TableOf(s)][k], now, FALSE).del
    /\ tables.pending[s][k] < MaxPending
    /\ tables' = [tables EXCEPT !.pending[s][k] = @ + 1]
    /\ UNCHANGED <<rows, now, pending, last, step, wrote, scan, iter, lifecycle>>

TableDetachedDel(s, k) ==
    /\ tables.pending[s][k] > 0
    /\ tables' = [tables EXCEPT !.pending[s][k] = @ - 1,
                                !.rel[TableOf(s)][k] = NoRow]
    /\ UNCHANGED <<rows, now, pending, last, step, wrote, scan, iter, lifecycle>>

\* one tick of the store's sweeper: the bulk delete on the store's table
TableSweep(s) ==
    /\ \E k \in TableKeys : isExpired(tables.rel[TableOf(s)][k].expiresAt, now)
    /\ tables' = [tables EXCEPT !.rel[TableOf(s)] =
                      [k \in TableKeys |->
                          IF @[k].expiresAt # NULL /\ @[k].expiresAt < Unix(now)
                          THEN NoRow ELSE @[k]]]
    /\ UNCHANGED <<rows, now, pending, last, step, wrote, scan, iter, lifecycle>>

StoreSet == \E s \in StoreIds, k \in TableKeys, ttl \in {0, 1} : TableSet(s, k, ttl)
StoreDel == \E s \in StoreIds, k \in TableKeys : TableDel(s, k)
StoreGet == \E s \in StoreIds, k \in TableKeys : TableGet(s, k)
StoreDetachedDel == \E s \in StoreIds, k \in TableKeys : TableDetachedDel(s, k)
StoreSweep == \E s \in StoreIds : TableSweep(s)

NextTables ==
    \/ StoreSet
    \/ StoreDel
    \/ StoreGet
    \/ StoreDetachedDel
    \/ StoreSweep
    \/ TimePasses

SpecTables == InitTables /\ [][NextTables]_vars

\* The lifetime of a key: the store in use by one caller whose Sets and Dels
\* are recorded in `wrote`, with the reads, the detached deletions they
\* start, and the passing of time.  No sweeper, no storage fault.
LifeTTLs == {0, 1, TicksPerSec, TicksPerSec + 1}

LifeCallSet ==
    /\ \E k \in KeySpace, ttl \in LifeTTLs :
          /\ Set(k, "v1", ttl, FALSE)
          /\ wrote' = [wrote EXCEPT ![k] = IF ttl > 0 THEN [at |-> now, ttl |-> ttl]
                                           ELSE NoWrite]
    /\ UNCHANGED <<step, scan, tables, iter, lifecycle>>

LifeCallDel ==
    /\ \E k \in KeySpace :
          /\ Del(k, FALSE)
          /\ wrote' = [wrote EXCEPT ![k] = NoWrite]
    /\ UNCHANGED <<step, scan, tables, iter, lifecycle>>

NextLife ==
    \/ LifeCallSet
    \/ LifeCallDel
    \/ LazyCallGet
    \/ LazyCallExists
    \/ LazyCallTTL
    \/ LazyCallKeys
    \/ LazyRunDetachedDel
    \/ TimePasses

SpecLife == Init /\ [][NextLife]_vars

\* The call of Keys row by row: the query (IterQuery), one turn of the loop
\* for rows.Next() per row of the result set, in any order (IterNext: the row
\* is scanned, its type and its expiry tested against the clock as it is
\* then), the end of the loop (IterStop: rows.Next() returns false, at the
\* end of the result set or before it with an error that rows.Err()
\* reports), the loop over keysToDelete (IterSpawn) and the return
\* (IterReturn).  Other goroutines write and time passes meanwhile.
IterQuery(p, fault) ==
    /\ iter.pc \in {"none", "done"}
    /\ IF fault
       THEN /\ iter' = [NoIter EXCEPT !.pc = "done", !.pattern = p]
            /\ last' = [Call("Keys", p, "", 0) EXCEPT !.err = StorageFault]
       ELSE /\ iter' = [NoIter EXCEPT !.pc = "loop", !.pattern = p, !.snap = rows,
                                      !.todo = Matched(rows, p)]
            /\ last' = last
    /\ UNCHANGED <<rows, now, pending>>

\* a variant of IterNext that starts the deletion inside the loop
IterNextSpawnsInLoop(k, bad) ==
    /\ iter.pc = "loop"
    /\ k \in iter.todo
    /\ LET dead == /\ ~bad
                   /\ iter.snap[k].kind = "string"
                   /\ isExpired(iter.snap[k].expiresAt, now)
       IN /\ dead => CanSpawn({k})
          /\ pending' = IF dead THEN Spawn({k}) ELSE pending
          /\ iter' = [iter EXCEPT !.todo = @ \ {k},
                          !.found = IF bad THEN @ ELSE @ \cup {k},
                          !.del = IF dead THEN @ \cup {k} ELSE @,
                          !.spawned = IF dead THEN @ \cup {k} ELSE @,
                          !.keys = IF ~bad /\ ~dead /\ iter.snap[k].kind = "string"
                                   THEN @ \cup {k} ELSE @]
    /\ UNCHANGED <<rows, now, last>>

IterNext(k, bad) ==
    /\ iter.pc = "loop"
    /\ k \in iter.todo
    /\ iter' = IF bad THEN [iter EXCEPT !.todo = @ \ {k}]
               ELSE IF iter.snap[k].kind # "string"
                    THEN [iter EXCEPT !.todo = @ \ {k}, !.found = @ \cup {k}]
               ELSE IF isExpired(iter.snap[k].expiresAt, now)
                    THEN [iter EXCEPT !.todo = @ \ {k}, !.found = @ \cup {k},
                                      !.del = @ \cup {k}]
               ELSE [iter EXCEPT !.todo = @ \ {k}, !.found = @ \cup {k},
                                 !.keys = @ \cup {k}]
    /\ UNCHANGED <<rows, now, pending, last>>

IterStop(fault) ==
    /\ iter.pc = "loop"
    /\ fault \/ iter.todo = {}
    /\ IF fault
       THEN /\ iter' = [NoIter EXCEPT !.pc = "done", !.pattern = iter.pattern]
            /\ last' = [Call("Keys", iter.pattern, "", 0) EXCEPT !.err = StorageFault]
       ELSE /\ iter' = [iter EXCEPT !.pc = "spawn"]
            /\ last' = last
    /\ UNCHANGED <<rows, now, pending>>

IterSpawn(k) ==
    /\ iter.pc = "spawn"
    /\ k \in iter.del \ iter.spawned
    /\ CanSpawn({k})
    /\ pending' = Spawn({k})
    /\ iter' = [iter EXCEPT !.spawned = @ \cup {k}]
    /\ UNCHANGED <<rows, now, last>>

IterReturn ==
    /\ iter.pc = "spawn"
    /\ iter.spawned = iter.del
    /\ iter' = [NoIter EXCEPT !.pc = "done", !.pattern = iter.pattern]
    /\ last' = [Call("Keys", iter.pattern, "", 0) EXCEPT !.keys = iter.keys]
    /\ UNCHANGED <<rows, now, pending>>

ScanPatterns == {<<"*">>, <<"a">>}

KeysQuery ==
    /\ \E p \in ScanPatterns, f \in Faults : IterQuery(p, f)
    /\ UNCHANGED <<step, wrote, scan, tables, lifecycle>>

KeysNext ==
    /\ \E k \in KeySpace, bad \in Faults : IterNext(k, bad)
    /\ UNCHANGED <<step, wrote, scan, tables, lifecycle>>

KeysStop ==
    /\ \E f \in Faults : IterStop(f)
    /\ UNCHANGED <<step, wrote, scan, tables, lifecycle>>

KeysSpawn ==
    /\ \E k \in KeySpace : IterSpawn(k)
    /\ UNCHANGED <<step, wrote, scan, tables, lifecycle>>

KeysReturn ==
    /\ IterReturn
    /\ UNCHANGED <<step, wrote, scan, tables, lifecycle>>

\* the other goroutines of the program during the call
ScanCallSet ==
    /\ \E k \in KeySpace, ttl \in {0, 1} : Set(k, "v1", ttl, FALSE)
    /\ UNCHANGED <<step, wrote, scan, tables, iter, lifecycle>>

ScanWriteOtherKind ==
    /\ Inject(<<"a">>, "v2", 1)
    /\ UNCHANGED <<step, wrote, scan, tables, iter, lifecycle>>

ScanDetachedDel ==
    /\ \E k \in KeySpace : DetachedDel(k, FALSE)
    /\ UNCHANGED <<step, wrote, scan, tables, iter, lifecycle>>

NextScan ==
    \/ KeysQuery
    \/ KeysNext
    \/ KeysStop
    \/ KeysSpawn
    \/ KeysReturn
    \/ ScanCallSet
    \/ ScanWriteOtherKind
    \/ ScanDetachedDel
    \/ TimePasses

SpecScan == Init /\ [][NextScan]_vars

TypeOK ==
    /\ \A k \in KeySpace :
         \/ rows[k] = NoRow
         \/ /\ rows[k].value \in Values
            /\ rows[k].kind \in Kinds
            /\ rows[k].expiresAt \in {NULL} \cup 0..Unix(MaxTime + MaxTTL)
    /\ now \in 0..MaxTime
    /\ pending \in [KeySpace -> 0..MaxPending]
    /\ ctxDone \in BOOLEAN
    /\ dbClosed \in BOOLEAN
    /\ dbClosed => ctxDone
    /\ \A i \in SweeperIds :
          /\ sweepers[i].pc \in {"none", "select", "exec", "done"}
          /\ sweepers[i].failed \in BOOLEAN
          /\ sweepers[i].nextAt \in 0..MaxTime
          /\ sweepers[i].tnow \in 0..Unix(MaxTime)

\* ------------------------------------------------------------ properties

\* the results of a call made now, when the statement does not fail
GetNow(k) == GetOutcome(rows[k], now, FALSE)
ExistsNow(k) == ExistsOutcome(rows[k], now, FALSE)
TTLNow(k) == TTLOutcome(rows[k], now, FALSE)
KeysNow(p) == KeysOutcome(rows, now, p, "none", {})

\* the results of a call made right after the step
GetNext(k) == GetOutcome(rows'[k], now', FALSE)
ExistsNext(k) == ExistsOutcome(rows'[k], now', FALSE)
TTLNext(k) == TTLOutcome(rows'[k], now', FALSE)

\* the step is the successful Set the post-state records as the caller's
\* most recent call (Set(k, v, ttl, FALSE) holds of a step exactly when SetStep
\* does and last' names k, v and ttl)
SetStep ==
    /\ last'.op = "Set"
    /\ last'.err = ErrNil
    /\ Set(last'.key, last'.val, last'.ttl, FALSE)

\* likewise for a successful Del and for a direct write
DelStep ==
    /\ last'.op = "Del"
    /\ last'.err = ErrNil
    /\ Del(last'.key, FALSE)

InjectStep ==
    /\ last'.op = "Inject"
    /\ Inject(last'.key, last'.val, last'.ttl)

\* C1: for every key, value and ttl > 0, at every instant: right after a
\* successful Set(k, v, ttl), with no time elapsed and nothing in between,
\* Get(k) returns v with no error and TTL(k) returns, with no error, a
\* duration d with 0 < d <= ttl.
C1_SetThenGetAndTTL ==
    [][(SetStep /\ last'.ttl > 0) =>
          /\ GetNext(last'.key).val = last'.val
          /\ GetNext(last'.key).err = ErrNil
          /\ TTLNext(last'.key).err = ErrNil
          /\ 0 < TTLNext(last'.key).dur
          /\ TTLNext(last'.key).dur <= last'.ttl]_vars

\* a string row of k is stored and its expires_at has passed: the current
\* time, in the whole seconds expires_at is stored in, is greater
StoredExpired(k) ==
    /\ rows[k] # NoRow
    /\ rows[k].kind = "string"
    /\ rows[k].expiresAt # NULL
    /\ now \div TicksPerSec > rows[k].expiresAt

\* C2: in every reachable state in which a string row whose expires_at has
\* passed is still stored, Get(k) fails with ErrKeyNotFound, Exists(k) returns
\* (false, nil), TTL(k) returns (0, ErrKeyNotFound), and no Keys(p) holds k.
C2_ExpiredReadsAbsent ==
    \A k \in KeySpace :
        StoredExpired(k) =>
            /\ GetNow(k).err = ErrKeyNotFound
            /\ GetNow(k).val = ""
            /\ ExistsNow(k).found = FALSE
            /\ ExistsNow(k).err = ErrNil
            /\ TTLNow(k).dur = 0
            /\ TTLNow(k).err = ErrKeyNotFound
            /\ \A p \in PatternSpace : k \notin KeysNow(p).keys

\* C2 witness: Get has just reported an expired row absent while the row is
\* still stored and its detached deletion has not run
C2_Witness ==
    /\ last.op = "Get"
    /\ last.err = ErrKeyNotFound
    /\ StoredExpired(last.key)
    /\ pending[last.key] > 0

\* C3: re-use after expiry.  Set(k, v1, ttl > 0), time passes beyond the
\* expiry, a Get(k) reports ErrKeyNotFound, the caller calls Set(k, v2, 0)
\* and then Get(k), with no Del of its own: the final Get returns v2 with no
\* error under every interleaving of the detached deletion the expired read
\* spawned.  (Checked under SpecReuse; before the final Get, last is the
\* Set(k, v2, 0) call.)
C3_ReuseAfterExpiry ==
    [][(step = "reset" /\ step' = "done") =>
          (last'.err = ErrNil /\ last'.val = last.val)]_vars

\* a string row of k is stored and its expires_at equals the current time,
\* in the whole seconds expires_at is stored in
AtBoundary(k) ==
    /\ rows[k] # NoRow
    /\ rows[k].kind = "string"
    /\ rows[k].expiresAt # NULL
    /\ rows[k].expiresAt = now \div TicksPerSec

\* C4: a string row whose expires_at equals the current whole second is live
\* for every read: Get returns its value, Exists returns true, Keys includes k
\* when the pattern matches, TTL does not fail with ErrKeyNotFound, and none
\* of them spawns a deletion of k.
C4_BoundaryIsLive ==
    \A k \in KeySpace :
        AtBoundary(k) =>
            /\ GetNow(k).err = ErrNil
            /\ GetNow(k).val = rows[k].value
            /\ ExistsNow(k).found
            /\ \A p \in PatternSpace :
                  /\ k \in LikeKeys[p] => k \in KeysNow(p).keys
                  /\ k \notin KeysNow(p).del
            /\ TTLNow(k).err # ErrKeyNotFound
            /\ ~GetNow(k).del
            /\ ~ExistsNow(k).del
            /\ ~TTLNow(k).del


\* C5: Set is a full replacement.  After Set(k, v, ttl) the row of k has value
\* v, kind "string" and expires_at = now + ttl in whole seconds if ttl > 0,
\* else none, whatever row k had before; a following Get(k) returns v; the
\* rows of all other keys are unchanged.  (One row per key: rows is a function
\* of the key, as the table's PRIMARY KEY makes it.)
C5_SetReplaces ==
    [][SetStep =>
          LET k == last'.key
              v == last'.val
              ttl == last'.ttl
          IN /\ rows'[k] = [value |-> v, kind |-> "string",
                            expiresAt |-> IF ttl > 0
                                          THEN (now + ttl) \div TicksPerSec
                                          ELSE NULL]
             /\ \A j \in KeySpace \ {k} : rows'[j] = rows[j]
             /\ DOMAIN rows' = KeySpace
             /\ GetNext(k).val = v
             /\ GetNext(k).err = ErrNil]_vars

\* C5 witness: a successful Set has replaced the row of a key whose expired
\* row a read had found (its detached deletion is still in flight), while the
\* other key holds a row of another kind
C5_Witness ==
    /\ last.op = "Set"
    /\ last.err = ErrNil
    /\ pending[last.key] > 0
    /\ rows[last.key].kind = "string"
    /\ rows[last.key].value = last.val
    /\ \E j \in KeySpace \ {last.key} : rows[j].kind = "list"

\* the row of k is a string row with no expires_at
Permanent(k) ==
    /\ rows[k] # NoRow
    /\ rows[k].kind = "string"
    /\ rows[k].expiresAt = NULL

NoExpirationResult == [dur |-> NoExpiration, err |-> ErrNil, del |-> FALSE]

C7_TTLShape ==
    /\ \A k \in KeySpace, f \in BOOLEAN :
          LET r == TTLOutcome(rows[k], now, f) IN
          /\ r.err = ErrNil =>
                /\ (r.dur = NoExpiration) <=> (rows[k].expiresAt = NULL)
                /\ rows[k].expiresAt # NULL => r.dur > 0
          /\ r.err # ErrNil => r.dur = 0
    /\ last.op = "TTL" => (last.dur = 0 => last.err # ErrNil)

\* C7 (amended): with a nil error the duration is -1 exactly when the row has
\* no expires_at and is otherwise >= 0, and it is 0 exactly when the clock
\* equals the instant expires_at names; with an error the duration is 0.
C7_TTLShapeAmended ==
    /\ \A k \in KeySpace, f \in BOOLEAN :
          LET r == TTLOutcome(rows[k], now, f) IN
          /\ r.err = ErrNil =>
                /\ (r.dur = NoExpiration) <=> (rows[k].expiresAt = NULL)
                /\ rows[k].expiresAt # NULL =>
                      /\ r.dur >= 0
                      /\ (r.dur = 0) <=> (rows[k].expiresAt * TicksPerSec = now)
          /\ r.err # ErrNil => r.dur = 0
    /\ last.op = "TTL" =>
          /\ last.err # ErrNil => last.dur = 0
          /\ last.err = ErrNil => (last.dur = NoExpiration \/ last.dur >= 0)

\* C7 witness: TTL has returned a duration of 0 with a nil error
C7_Witness ==
    /\ last.op = "TTL"
    /\ last.err = ErrNil
    /\ last.dur = 0
    /\ rows[last.key].expiresAt * TicksPerSec = now

\* C8: Del(k) returns no error whether or not k has a row (live, expired, of
\* any kind); after it Exists(k) is false and Get(k) fails with
\* ErrKeyNotFound, until a Set of k; the rows of all other keys are unchanged;
\* and a second Del(k) right after the first changes nothing and returns nil.
C8_Del ==
    [][/\ DelStep =>
            /\ rows'[last'.key] = NoRow
            /\ \A j \in KeySpace \ {last'.key} : rows'[j] = rows[j]
            /\ pending' = pending
       /\ (last'.op = "Del" /\ Del(last'.key, FALSE)) => last'.err = ErrNil
       /\ (DelStep /\ last.op = "Del" /\ last.key = last'.key /\ last.err = ErrNil)
            => UNCHANGED vars
       /\ \A k \in KeySpace :
            /\ rows'[k] = NoRow =>
                  /\ ExistsNext(k).found = FALSE
                  /\ ExistsNext(k).err = ErrNil
                  /\ GetNext(k).err = ErrKeyNotFound
            /\ (rows[k] = NoRow /\ rows'[k] # NoRow) =>
                  \/ SetStep /\ last'.key = k
                  \/ InjectStep /\ last'.key = k]_vars

\* C8 witness: Del has returned nil, its key has no row, and the other key
\* still has its row
C8_Witness ==
    /\ last.op = "Del"
    /\ last.err = ErrNil
    /\ rows[last.key] = NoRow
    /\ \E j \in KeySpace \ {last.key} : rows[j] # NoRow

\* a row of k of another kind than "string" is stored and is not expired
StoredOtherKind(k) ==
    /\ rows[k] # NoRow
    /\ rows[k].kind # "string"
    /\ ~(rows[k].expiresAt # NULL /\ now \div TicksPerSec > rows[k].expiresAt)

C10_ErrorTaxonomy ==
    \A k \in KeySpace :
        /\ GetNow(k).err = ErrWrongType => StoredOtherKind(k)
        /\ TTLNow(k).err = ErrWrongType => StoredOtherKind(k)
        /\ (/\ rows[k] # NoRow
            /\ rows[k].expiresAt # NULL
            /\ now \div TicksPerSec > rows[k].expiresAt) =>
              /\ GetNow(k).err = ErrKeyNotFound
              /\ TTLNow(k).err = ErrKeyNotFound

\* the glob of the pattern language: * stands for any sequence of characters
\* (the empty one included), ? for exactly one character, every other
\* character for itself
RECURSIVE GlobMatch(_, _)
GlobMatch(g, s) ==
    IF g = <<>> THEN s = <<>>
    ELSE IF Head(g) = "*" THEN
        GlobMatch(Tail(g), s) \/ (s # <<>> /\ GlobMatch(g, Tail(s)))
    ELSE IF Head(g) = "?" THEN
        s # <<>> /\ GlobMatch(Tail(g), Tail(s))
    ELSE
        s # <<>> /\ Head(s) = Head(g) /\ GlobMatch(Tail(g), Tail(s))

\* the keys the claim says Keys(p) returns
LiveStringMatches(p) ==
    {k \in KeySpace : /\ rows[k] # NoRow
                      /\ GlobMatch(p, k)
                      /\ rows[k].kind = "string"
                      /\ ~(rows[k].expiresAt # NULL /\ now \div TicksPerSec > rows[k].expiresAt)}

\* C11: a Keys(p) whose scan reads every row returns exactly the keys that
\* have a row, match the glob p, are of kind "string" and are not expired (in
\* whole seconds) at the time of the scan.  (The result is a set here: each
\* row is appended once and the key is the PRIMARY KEY.)
C11_KeysExact ==
    \A p \in PatternSpace :
        /\ KeysNow(p).err = ErrNil
        /\ KeysNow(p).keys = LiveStringMatches(p)

\* C12: for every pattern and key over the alphabet, the row of the key is
\* selected by Keys(pattern) if and only if the key matches the glob.
C12_TranslationIsGlob ==
    scan.pc = "matched" => (scan.hit <=> GlobMatch(scan.glob, scan.key))

\* a sweeper is in its loop
Sweeping(i) == sweepers[i].pc \in {"select", "exec"}

\* a row of k, of any kind, is stored and its expires_at has passed
Expired(k) ==
    /\ rows[k] # NoRow
    /\ rows[k].expiresAt # NULL
    /\ now \div TicksPerSec > rows[k].expiresAt

\* the step is a bulk delete of some sweeper
BulkDeleteStep == \E i \in SweeperIds, f \in Faults : SweeperExec(i, f)

\* C13: with a sweeper running, a row whose expires_at has passed is
\* eventually removed from the table, with no read of its key, unless the key
\* is Set again (its row is then no longer an expired one) or Close is called; and no bulk delete removes a row that is
\* not expired at the time of the statement: such a row stays as it is and
\* Exists reports it.
C13_SweeperConverges ==
    /\ \A k \in KeySpace :
          ((\E i \in SweeperIds : Sweeping(i)) /\ Expired(k))
              ~> (rows[k] = NoRow \/ ~Expired(k) \/ ctxDone)
    /\ [][BulkDeleteStep =>
            \A k \in KeySpace :
               (rows[k] # NoRow /\ ~isExpired(rows[k].expiresAt, now)) =>
                   /\ rows'[k] = rows[k]
                   /\ dbClosed \/ ExistsNext(k).found]_vars

\* C13 witness: the store is open, the caller's last call was a Set of a key
\* with a ttl, that key's row is gone (this specification has no reads and no
\* Del: a sweeper removed it), and the other key's unexpired row is stored
C13_Witness ==
    /\ ~ctxDone
    /\ last.op = "Set"
    /\ last.err = ErrNil
    /\ rows[last.key] = NoRow
    /\ \E j \in KeySpace \ {last.key} :
          rows[j] # NoRow /\ rows[j].expiresAt # NULL /\ ExistsNow(j).found

\* C14: a selection a sweeper makes after Close has called cancel takes the
\* cancellation and the sweeper exits, also when a tick is ready at that
\* selection: no sweeper leaves its select towards another bulk delete once
\* the context is cancelled.
C14_CancelBeforeNextDelete ==
    [][\A i \in SweeperIds :
          (ctxDone /\ sweepers[i].pc = "select" /\ sweepers'[i].pc # "select")
              => sweepers'[i].pc = "done"]_vars

\* C15: once Close has called cancel, every sweeper that is in its loop
\* (one in the middle of a tick, and one started by a RunCleanup after
\* Close, included) eventually returns.
C15_SweepersTerminate ==
    \A i \in SweeperIds :
        (ctxDone /\ Sweeping(i)) ~> (sweepers[i].pc = "done")

\* C15 witness: Close has returned, the caller has called RunCleanup with a
\* positive interval after that, and every sweeper, the one started after
\* Close included, has returned
C15_Witness ==
    /\ dbClosed
    /\ last.op = "RunCleanup"
    /\ last.ttl > 0
    /\ \A i \in SweeperIds : sweepers[i].pc = "done"

\* C17: a bulk delete that fails leaves the sweeper in its loop, the table
\* and the caller's result as they were; unless the store is closed the
\* sweeper then issues a bulk delete again, and the rows that are expired are
\* eventually removed (or Set again).
C17_FailedTickRetries ==
    /\ [][\A i \in SweeperIds :
             (SweeperExec(i, TRUE) \/ (dbClosed /\ SweeperExec(i, FALSE))) =>
                 /\ sweepers'[i].pc = "select"
                 /\ sweepers'[i].failed
                 /\ rows' = rows
                 /\ last' = last]_vars
    /\ \A i \in SweeperIds :
          (sweepers[i].failed /\ sweepers[i].pc = "select")
              ~> (sweepers[i].pc = "exec" \/ ctxDone)
    /\ \A k \in KeySpace :
          ((\E i \in SweeperIds : sweepers[i].failed /\ Sweeping(i)) /\ Expired(k))
              ~> (rows[k] = NoRow \/ ~Expired(k) \/ ctxDone)

\* C17 witness: the store is open, a sweeper's bulk delete has failed while
\* an expired row was stored, and the sweeper is back at its select
C17_Witness ==
    /\ ~ctxDone
    /\ \E i \in SweeperIds : sweepers[i].failed /\ sweepers[i].pc = "select"
    /\ \E k \in KeySpace : Expired(k)

\* the step is a call of RunCleanup
RunCleanupStep ==
    /\ last'.op = "RunCleanup"
    /\ RunCleanup(last'.ttl)

\* C18: RunCleanup with an interval <= 0 starts no sweeper and changes
\* nothing of the store (table, clock, detached deletions, context, handle,
\* sweepers): every call returns after it what it returned before, an expired
\* key is still reported absent and its read still spawns the deletion.  A
\* bulk delete is only ever issued by a sweeper a call with a positive
\* interval started.
C18_NoSweeperForBadInterval ==
    /\ [][(RunCleanupStep /\ last'.ttl <= 0) =>
             /\ UNCHANGED <<rows, now, pending, lifecycle>>
             /\ \A k \in KeySpace :
                   /\ GetNext(k) = GetNow(k)
                   /\ ExistsNext(k) = ExistsNow(k)
                   /\ TTLNext(k) = TTLNow(k)
                   /\ StoredExpired(k) =>
                         /\ GetNext(k).err = ErrKeyNotFound /\ GetNext(k).del
                         /\ ~ExistsNext(k).found /\ ExistsNext(k).del]_vars
    /\ [][(\E i \in SweeperIds : sweepers[i].pc = "none" /\ sweepers'[i].pc # "none")
             => (RunCleanupStep /\ last'.ttl > 0)]_vars

\* C18 witness: the caller's last call is RunCleanup with an interval <= 0 on
\* the open store, no sweeper exists, and an expired row is stored
C18_Witness ==
    /\ last.op = "RunCleanup"
    /\ last.ttl <= 0
    /\ ~ctxDone
    /\ \A i \in SweeperIds : sweepers[i].pc = "none"
    /\ \E k \in KeySpace : StoredExpired(k)

\* the sweepers in their loops
Running == {i \in SweeperIds : Sweeping(i)}

\* C19: every RunCleanup with a positive interval adds one sweeper to those
\* running and leaves the others as they are; a step of one sweeper (a tick
\* taken, a bulk delete, its return) leaves the other sweepers as they are;
\* and after the one cancel of Close all of them eventually stop.
C19_NotIdempotent ==
    /\ [][(RunCleanupStep /\ last'.ttl > 0) =>
             /\ Cardinality(Running') = Cardinality(Running) + 1
             /\ \A j \in Running : sweepers'[j] = sweepers[j]]_vars
    /\ [][\A i \in SweeperIds :
             (sweepers'[i] # sweepers[i] /\ ~RunCleanupStep) =>
                 \A j \in SweeperIds \ {i} : sweepers'[j] = sweepers[j]]_vars
    /\ (ctxDone /\ Cardinality(Running) > 1) ~> (Running = {})

\* C19 witness: on the open store two sweepers run at once: one is in the
\* middle of a bulk delete while the other is back at its select after a
\* failed one
C19_Witness ==
    /\ ~ctxDone
    /\ \E i, j \in SweeperIds :
          /\ sweepers[i].pc = "exec"
          /\ sweepers[j].pc = "select"
          /\ sweepers[j].failed

\* the step is a call of Get, of Set
GetCallStep == last'.op = "Get" /\ \E f \in Faults : Get(last'.key, f)
SetCallStep == last'.op = "Set" /\ \E f \in Faults : Set(last'.key, last'.val, last'.ttl, f)

\* C16: once Close has returned the handle stays closed; every Get then
\* returns a storage fault and no value, every Set returns a storage fault and
\* stores nothing.
C16_ClosedStoreFails ==
    [][/\ dbClosed => dbClosed'
       /\ (dbClosed /\ GetCallStep) =>
             /\ last'.err = StorageFault
             /\ last'.val = ""
             /\ rows' = rows
             /\ pending' = pending
       /\ (dbClosed /\ SetCallStep) =>
             /\ last'.err = StorageFault
             /\ rows' = rows]_vars

\* C16 witness: after Close, Get has returned a storage fault for a key whose
\* live string row is in the table
C16_Witness ==
    /\ dbClosed
    /\ last.op = "Get"
    /\ last.err = StorageFault
    /\ rows[last.key] # NoRow
    /\ rows[last.key].kind = "string"
    /\ ~isExpired(rows[last.key].expiresAt, now)

\* the step is a successful read of the named kind
ReadStep(op) == last'.op = op /\ last'.err # StorageFault /\ ~dbClosed

\* C20: a read that finds an expired row returns its own result in the same
\* step that spawns the deletion, with the row still stored (Get, TTL:
\* ErrKeyNotFound; Exists: false; Keys: the key left out); a detached deletion,
\* whether it succeeds, fails, or runs after Close, leaves the result the
\* caller got as it is; and Close can return while detached deletions are
\* pending.
C20_DetachedDelIsolated ==
    /\ [][/\ \A k \in KeySpace :
               (StoredExpired(k) /\ last'.key = k) =>
                   /\ (ReadStep("Get") /\ Get(k, FALSE)) =>
                         last'.err = ErrKeyNotFound /\ rows' = rows /\ pending'[k] = pending[k] + 1
                   /\ (ReadStep("TTL") /\ TTL(k, FALSE)) =>
                         last'.err = ErrKeyNotFound /\ rows' = rows /\ pending'[k] = pending[k] + 1
                   /\ (ReadStep("Exists") /\ Exists(k, FALSE)) =>
                         /\ last'.err = ErrNil /\ ~last'.found
                         /\ rows' = rows /\ pending'[k] = pending[k] + 1
          /\ \A p \in PatternSpace :
               (ReadStep("Keys") /\ last'.key = p /\ Keys(p, "none", {})) =>
                   /\ last'.err = ErrNil
                   /\ rows' = rows
                   /\ \A k \in LikeKeys[p] :
                         StoredExpired(k) => k \notin last'.keys /\ pending'[k] = pending[k] + 1
          /\ \A k \in KeySpace, f \in Faults :
               DetachedDel(k, f) => last' = last]_vars
    /\ [](ctxDone /\ ~dbClosed => ENABLED CallCloseDb)

\* C20 witness: Close has returned while the detached deletion of an expired
\* row, which a read before Close found, has not run
C20_Witness ==
    /\ dbClosed
    /\ last.op = "Close"
    /\ \E k \in KeySpace : pending[k] > 0 /\ StoredExpired(k)

\* the rows a Set at some time up to now, with the value and ttl of the
\* caller's last call, can have written
WrittenByLastSet ==
    {[value |-> last.val, kind |-> "string", expiresAt |-> SetExpiresAt(t, last.ttl)] :
        t \in 0..now}

\* C21: a successful Set(k, v, ttl) and a detached Del(k) in flight: the
\* statement that runs last decides.  The Set leaves exactly its row, the
\* delete leaves no row; so while that Set is the caller's last call the
\* table holds for k either the row the Set wrote or no row, never an older
\* row and never a row with only part of the Set's columns.
C21_LastWriterWins ==
    /\ [][SetStep => rows'[last'.key] =
                        [value |-> last'.val, kind |-> "string",
                         expiresAt |-> SetExpiresAt(now, last'.ttl)]]_vars
    /\ [][\A k \in KeySpace :
             /\ DetachedDel(k, FALSE) => rows'[k] = NoRow
             /\ DetachedDel(k, TRUE) => rows'[k] = rows[k]]_vars
    /\ []((last.op = "Set" /\ last.err = ErrNil) =>
             (rows[last.key] = NoRow \/ rows[last.key] \in WrittenByLastSet))

\* C21 witness: the caller's last call is a successful Set over an expired row
\* whose detached deletion was in flight; the deletion has run after the Set
\* and the key has no row
C21_Witness ==
    /\ last.op = "Set"
    /\ last.err = ErrNil
    /\ rows[last.key] = NoRow
    /\ pending[last.key] = 0

\* C24 (expired under the Expiry Policy): a row is stored, its expires_at is
\* present and less than now, in whole seconds.  This is Expired(k).
\* C24: whenever Get, Exists, TTL or Keys called now would spawn a detached
\* deletion of k, the row of k is expired under the Expiry Policy; so no read
\* spawns the deletion of a row that Get or Exists report as live.
C24_LazyDeletionOnlyExpired ==
    \A k \in KeySpace :
        (\/ GetNow(k).del
         \/ ExistsNow(k).del
         \/ TTLNow(k).del
         \/ \E p \in PatternSpace : k \in KeysNow(p).del)
            => /\ Expired(k)
               /\ GetNow(k).err # ErrNil
               /\ ~ExistsNow(k).found

\* a row of another kind than "string" is stored under k, expired or not
OtherKind(k) == rows[k] # NoRow /\ rows[k].kind # "string"

\* the step is a call of Get, TTL or Keys that the storage serves
TypedReadOf(k) ==
    \/ Get(k, FALSE)
    \/ TTL(k, FALSE)
    \/ \E p \in PatternSpace : Keys(p, "none", {})

\* the caller's last call is a Get or TTL that found a row of another kind
LastFoundOtherKind ==
    /\ last.op \in {"Get", "TTL"}
    /\ last.err = ErrWrongType

LiveStringLike(p) ==
    {k \in Matched(rows, p) : rows[k].kind = "string" /\ ~Expired(k)}

\* C28: no storage fault is swallowed by a synchronous call: a call during
\* which the storage fails returns an error, and a Keys during which one row
\* of the scan cannot be read does not return a nil error with a result that
\* lacks a live key the filter selected.
C28_NoFaultSwallowed ==
    [][/\ \A k \in KeySpace :
            (\/ Get(k, TRUE)
             \/ Exists(k, TRUE)
             \/ TTL(k, TRUE)
             \/ Del(k, TRUE)
             \/ \E v \in Values, ttl \in TTLs : Set(k, v, ttl, TRUE))
                => last'.err = StorageFault
       /\ \A p \in PatternSpace :
            (\E f \in {"query", "iter"} : Keys(p, f, {})) => last'.err = StorageFault
       /\ \A p \in PatternSpace, k \in KeySpace :
            (rows[k] # NoRow /\ Keys(p, "none", {k}))
                => (last'.err # ErrNil \/ LiveStringLike(p) \subseteq last'.keys)]_vars

\* C30: the synchronous step of Get, Exists, TTL and Keys changes no row, and
\* a read of a key that has no row or whose row is not expired spawns no
\* detached deletion of it.
C30_ReadsDoNotWrite ==
    [][/\ \A k \in KeySpace, f \in Faults :
            (Get(k, f) \/ Exists(k, f) \/ TTL(k, f))
                => /\ rows' = rows
                   /\ ~Expired(k) => pending' = pending
       /\ \A p \in PatternSpace, f \in {"none", "query", "iter"}, b \in SUBSET KeySpace :
            Keys(p, f, b)
                => /\ rows' = rows
                   /\ \A k \in KeySpace : ~Expired(k) => pending'[k] = pending[k]]_vars

\* the pattern read as a LIKE pattern: % stands for any sequence of
\* characters, _ for exactly one, every other character for itself
RECURSIVE LikeWildcards(_, _)
LikeWildcards(p, s) ==
    IF p = <<>> THEN s = <<>>
    ELSE IF Head(p) = "%" THEN
        LikeWildcards(Tail(p), s) \/ (s # <<>> /\ LikeWildcards(p, Tail(s)))
    ELSE IF Head(p) = "_" THEN
        s # <<>> /\ LikeWildcards(Tail(p), Tail(s))
    ELSE
        s # <<>> /\ Head(s) = Head(p) /\ LikeWildcards(Tail(p), Tail(s))

\* the pattern read as a glob whose letters match without regard to case:
\* * and ? are the wildcards, % and _ stand for themselves
RECURSIVE GlobMatchNoCase(_, _)
GlobMatchNoCase(g, s) ==
    IF g = <<>> THEN s = <<>>
    ELSE IF Head(g) = "*" THEN
        GlobMatchNoCase(Tail(g), s) \/ (s # <<>> /\ GlobMatchNoCase(g, Tail(s)))
    ELSE IF Head(g) = "?" THEN
        s # <<>> /\ GlobMatchNoCase(Tail(g), Tail(s))
    ELSE
        s # <<>> /\ Fold(Head(s)) = Fold(Head(g)) /\ GlobMatchNoCase(Tail(g), Tail(s))

\* the characters of a text
Chars(t) == {t[i] : i \in 1..Len(t)}

FindsExpired(k) ==
    /\ rows[k] # NoRow
    /\ \/ Get(k, FALSE) /\ last'.err = ErrKeyNotFound
       \/ TTL(k, FALSE) /\ last'.err = ErrKeyNotFound
       \/ Exists(k, FALSE) /\ ~last'.found
       \/ \E p \in PatternSpace :
            /\ Keys(p, "none", {})
            /\ k \in Matched(rows, p)
            /\ rows[k].kind = "string"
            /\ k \notin last'.keys

\* C29: with no sweeper, an open store and a storage that does not fail: a
\* read that finds the row of k expired hands k to a detached deletion, and
\* whenever a detached deletion of k is in flight the row of k is eventually
\* absent from the table.
C29_DiscoveredExpiredIsRemoved ==
    /\ [][\A k \in KeySpace : FindsExpired(k) => pending'[k] > 0]_vars
    /\ \A k \in KeySpace : (pending[k] > 0) ~> (rows[k] = NoRow)

\* C29 witness: a Get has found the row of its key expired, the row is still
\* there and its detached deletion is in flight
C29_Witness ==
    /\ last.op = "Get"
    /\ last.err = ErrKeyNotFound
    /\ rows[last.key] # NoRow
    /\ Expired(last.key)
    /\ pending[last.key] > 0

\* C26: a tick of the sweeper whose statement succeeds removes exactly the
\* rows, of any kind, whose expires_at is present and less than the second the
\* tick read from the clock, and leaves every other row as it is; a removed
\* row is one that Get and Exists do not report, so a row written by a Set
\* after the tick has read the clock is not removed.
C26_TickSweepsExactlyExpired ==
    [][\A i \in SweeperIds :
          (SweeperExec(i, FALSE) /\ ~dbClosed) =>
              \A k \in KeySpace :
                 /\ rows'[k] \in {NoRow, rows[k]}
                 /\ (rows[k] # NoRow /\ rows'[k] = NoRow)
                       <=> (/\ rows[k] # NoRow
                            /\ rows[k].expiresAt # NULL
                            /\ rows[k].expiresAt < sweepers[i].tnow)
                 /\ (rows[k] # NoRow /\ rows'[k] = NoRow)
                       => (/\ ~ExistsNow(k).found
                           /\ GetNow(k).err # ErrNil
                           /\ sweepers[i].tnow <= now \div TicksPerSec)]_vars

\* C26 witness: a sweeper has read the clock and is about to run its delete;
\* the table holds an expired row of another kind, which the tick removes, and
\* a row that is not expired at the second the tick read, which it leaves
C26_Witness ==
    \E i \in SweeperIds, k \in KeySpace, j \in KeySpace :
        /\ sweepers[i].pc = "exec"
        /\ ~dbClosed
        /\ rows[k] # NoRow
        /\ rows[k].kind # "string"
        /\ rows[k].expiresAt # NULL
        /\ rows[k].expiresAt < sweepers[i].tnow
        /\ rows[j] # NoRow
        /\ rows[j].kind = "string"
        /\ rows[j].expiresAt # NULL
        /\ rows[j].expiresAt >= sweepers[i].tnow

\* C25: Keys starts its detached deletions only after the scan: a deletion
\* is started only in the loop that follows the scan, when every row of the
\* result set has been read, and only for a key the scan put aside; when Keys
\* returns its keys, it has started one deletion for each string row the scan
\* found expired and none for another row; when the iteration ends with an
\* error, Keys returns that error with no keys and has started no deletion.
C25_KeysDeletesAfterScan ==
    /\ [][\A k \in KeySpace :
             pending'[k] > pending[k]
                 => /\ iter.pc = "spawn"
                    /\ iter.todo = {}
                    /\ k \in iter.del \ iter.spawned
                    /\ pending'[k] = pending[k] + 1]_vars
    /\ [][IterReturn
             => /\ iter.spawned = iter.del
                /\ last'.err = ErrNil
                /\ last'.keys \cap iter.del = {}
                /\ \A k \in iter.found :
                      k \in iter.del <=>
                          (/\ iter.snap[k].kind = "string"
                           /\ iter.snap[k].expiresAt # NULL
                           /\ k \notin last'.keys)
                /\ \A k \in iter.del : isExpired(iter.snap[k].expiresAt, now)]_vars
    /\ [][IterStop(TRUE)
             => /\ last'.err = StorageFault
                /\ last'.keys = {}
                /\ pending' = pending
                /\ iter.spawned = {}
                /\ iter'.pc = "done"]_vars

\* C25 witness: the scan of a Keys call is over, the call is in the loop over
\* the keys it put aside and has started the deletion of one of them
C25_Witness ==
    /\ iter.pc = "spawn"
    /\ iter.todo = {}
    /\ \E k \in iter.spawned : pending[k] > 0

\* the step is an operation of store s: a Set, a Del, a Get that starts a
\* detached deletion, a detached deletion, or a bulk delete of its sweeper
StepOfStore(s) ==
    \/ \E k \in TableKeys, ttl \in {0, 1} : TableSet(s, k, ttl)
    \/ \E k \in TableKeys : TableDel(s, k) \/ TableGet(s, k) \/ TableDetachedDel(s, k)
    \/ TableSweep(s)

\* what the reads of store s answer for key k
ReadsOf(rel, t, k) ==
    <<GetOutcome(rel[k], t, FALSE), ExistsOutcome(rel[k], t, FALSE),
      TTLOutcome(rel[k], t, FALSE)>>

\* C22: two stores opened on the same file with different table names: no
\* operation of one store changes a row of the other store's table, nor what
\* Get, Exists and TTL of the other store answer.
C22_TableIsolation ==
    [][\A s \in StoreIds :
          StepOfStore(s) =>
              /\ tables'.rel[TableOf(OtherStore(s))] = tables.rel[TableOf(OtherStore(s))]
              /\ \A k \in TableKeys :
                    ReadsOf(tables'.rel[TableOf(OtherStore(s))], now', k)
                        = ReadsOf(tables.rel[TableOf(OtherStore(s))], now, k)]_vars

\* C31: a key written by Set(k, v, t) with t > 0, and not overwritten or
\* deleted by the caller since, is reported live by Get and Exists at every
\* instant less than t after the Set, and reported absent by Get and Exists
\* from t plus one second after the Set onwards.
C31_LifetimeUnderTruncation ==
    \A k \in KeySpace :
        wrote[k] # NoWrite =>
            /\ now < wrote[k].at + wrote[k].ttl
                  => (GetNow(k).err = ErrNil /\ ExistsNow(k).found)
            /\ now >= wrote[k].at + wrote[k].ttl + TicksPerSec
                  => (GetNow(k).err = ErrKeyNotFound /\ ~ExistsNow(k).found)

====
